---- MODULE Spec2Model ----
(***************************************************************************)
(* DX peer-to-peer chess staking platform.                                 *)
(*                                                                         *)
(* Three server variants are modelled over one set of variables:           *)
(*   "json"   - JSON-file storage with challenges, appeal period and a     *)
(*              separate process-disbursement request                      *)
(*   "sqlite" - better-sqlite3 storage (server.js)                         *)
(*   "sqljs"  - sql.js storage                                             *)
(* Spec is the JSON-file variant, SpecSql the two SQL variants.            *)
(*                                                                         *)
(* Every synchronous express handler is one atomic action.  The async     *)
(* submit-result handler is two actions: the part before                   *)
(* `await fetchLichessGame(...)` and the part after it; other requests may *)
(* run in between.  resp is the last response sent: the route that sent it *)
(* and its HTTP status.                                                    *)
(* Time is counted in minutes; ISO timestamps are kept as integers.        *)
(* Money is an integer number of naira.                                    *)
(***************************************************************************)
EXTENDS Integers, Sequences, FiniteSets, Bags, TLC

VARIABLES variant, users, challenges, matches, appeals, transactions,
          inflight, now, resp

vars == <<variant, users, challenges, matches, appeals, transactions,
          inflight, now, resp>>

db == <<users, challenges, matches, appeals, transactions>>

----------------------------------------------------------------------------
(* Bounds of the model *)

MaxChallenges == 1
MaxDeposits == 2
MaxWithdrawals == 1
MaxInflight == 2
MaxSqlMatches == 1
MaxSqlResults == 2
(* rejections of one withdrawal stop once a wallet would exceed this *)
MaxRefundedBalance == 3000
(* calculateFee is applied to the stakes MIN_STAKE .. MIN_STAKE + MaxFeeStakes *)
MaxFeeStakes == 150

(* Program constants *)

MIN_STAKE == 500
PLATFORM_FEE_PERMILLE == 15
APPEAL_PERIOD_MINUTES == 5
CHALLENGE_EXPIRY_MINUTES == 15
MIN_DEPOSIT == 100
MIN_WITHDRAWAL == 500

(* Request inputs *)

(* The instants at which requests arrive.  Relative to a challenge sent at 5
   (expiry 20) and a result submitted at 0 (deadline 5) they lie before, at
   and after the stored expiry time / appeal deadline. *)
TimePoints ==
  {0, APPEAL_PERIOD_MINUTES, APPEAL_PERIOD_MINUTES + CHALLENGE_EXPIRY_MINUTES}

Null == "null"
Missing == "undefined"
(* a null user id (winner_id) and a null timestamp (appeal_deadline) *)
NoUser == 0
NoDate == -1
(* a number position holding undefined or NaN: a request body without
   stake_amount, and every sum or difference computed from it *)
NotANumber == -1
(* what a lookup returns when no record matches *)
NotFound == [id |-> 0]

UserIds == {1, 2, 3}
Admins == {3}

Players == {1, 2}
StakeAmounts == {400, 1000}
DepositAmounts == {1000}
WithdrawAmounts == {1000}
LinkInputs == {<<2, "Bob">>}
TimeControls == {"blitz", "rapid"}
(* <<proposer, target>> of the send requests *)
SendInputs == {<<1, 2>>, <<2, 1>>, <<1, 1>>, <<1, NoUser>>}

(* Immutable game records of the external site, by game id *)
Games ==
  [ gDraw  |-> [winner |-> Null,    white |-> "zed",   black |-> "BOB", speed |-> "blitz"],
    gBlack |-> [winner |-> "black", white |-> "zed",   black |-> "BOB", speed |-> "blitz"],
    gOther |-> [winner |-> "white", white |-> "zed",   black |-> "BOB", speed |-> "blitz"],
    gAnon  |-> [winner |-> "white", white |-> Missing, black |-> "BOB", speed |-> "blitz"] ]

GameIds == DOMAIN Games

----------------------------------------------------------------------------
(* Helpers *)

toLowerCase(s) ==
  CASE s = "Bob" -> "bob"
    [] s = "BOB" -> "bob"
    [] OTHER     -> s

(* (x || '') for a string or null/undefined x *)
OrEmpty(x) == IF x = Null \/ x = Missing THEN "" ELSE x

MaxOf(S) == CHOOSE x \in S : \A y \in S : y <= x

generateId(arr) ==
  IF Len(arr) > 0 THEN MaxOf({arr[i].id : i \in 1..Len(arr)}) + 1 ELSE 1

findById(arr, id) ==
  IF \E i \in 1..Len(arr) : arr[i].id = id
    THEN arr[CHOOSE i \in 1..Len(arr) :
               arr[i].id = id /\ \A j \in 1..(i-1) : arr[j].id # id]
    ELSE NotFound

insert(arr, item) ==
  Append(arr, [f \in DOMAIN item \cup {"id"} |->
                 IF f = "id" THEN generateId(arr) ELSE item[f]])

Merge(old, updates) ==
  [f \in DOMAIN old \cup DOMAIN updates |->
     IF f \in DOMAIN updates THEN updates[f] ELSE old[f]]

update(arr, id, updates) ==
  [i \in 1..Len(arr) |->
     IF arr[i].id = id /\ \A j \in 1..(i-1) : arr[j].id # id
       THEN Merge(arr[i], updates) ELSE arr[i]]

(* JavaScript's <, +, -, and x || 0 on numbers: a comparison with NaN is
   false, arithmetic on NaN is NaN *)
IsNumber(x) == x # NotANumber
Less(a, b) == IsNumber(a) /\ IsNumber(b) /\ a < b
Plus(a, b) == IF IsNumber(a) /\ IsNumber(b) THEN a + b ELSE NotANumber
Minus(a, b) == IF IsNumber(a) /\ IsNumber(b) THEN a - b ELSE NotANumber
OrZero(x) == IF IsNumber(x) THEN x ELSE 0

(* calculateFee on any integer stake, its three results in hundredths of a
   naira: (totalPot * 1.5) / 100 has two decimal places whenever the stake is
   not a multiple of 100 *)
calculateFeeOnStake(stakeAmount) ==
  LET totalPot == stakeAmount * 2
  IN  [totalPot |-> totalPot * 100,
       fee |-> (stakeAmount * PLATFORM_FEE_PERMILLE) \div 10,
       winnerPayout |-> totalPot * 100
                          - (stakeAmount * PLATFORM_FEE_PERMILLE) \div 10]

calculateFeeHundredths(stakeAmount) ==
  IF ~IsNumber(stakeAmount)
  THEN [totalPot |-> NotANumber, fee |-> NotANumber, winnerPayout |-> NotANumber]
  ELSE
  LET totalPot == stakeAmount * 2
  IN  [totalPot |-> totalPot * 100,
       fee |-> (totalPot * PLATFORM_FEE_PERMILLE) \div 10,
       winnerPayout |-> totalPot * 100
                          - (totalPot * PLATFORM_FEE_PERMILLE) \div 10]

(* calculateFee in naira, as the tables store it: the stakes of the requests
   below are multiples of 100, for which the hundredths are zero *)
calculateFee(stakeAmount) ==
  LET h == calculateFeeHundredths(stakeAmount)
  IN  IF ~IsNumber(stakeAmount) THEN h
      ELSE [totalPot |-> h.totalPot \div 100,
            fee |-> h.fee \div 100,
            winnerPayout |-> h.winnerPayout \div 100]

Respond(op, code) == resp' = [op |-> op, code |-> code]

Fail(op, code) ==
  /\ resp' = [op |-> op, code |-> code]
  /\ UNCHANGED <<variant, db, inflight, now>>

(* The transactions table is kept as a bag of rows: the rows' ids and
   insertion order are read by no handler of the JSON-file variant. *)
insertTx(txs, item) == txs (+) SetToBag({item})

TxOfType(type) ==
  [r \in {x \in DOMAIN transactions : x.type = type} |-> transactions[r]]

NumTx(type) == BagCardinality(TxOfType(type))

----------------------------------------------------------------------------
(* Initial state: empty tables, the registered accounts with zero balances *)

NewUser(isAdmin) ==
  [wallet_balance |-> 0, locked_balance |-> 0,
   lichess_username |-> Null, is_admin |-> isAdmin]

InitCommon ==
  /\ users = [u \in UserIds |-> NewUser(IF u \in Admins THEN 1 ELSE 0)]
  /\ challenges = <<>>
  /\ matches = <<>>
  /\ appeals = <<>>
  /\ transactions = EmptyBag
  /\ inflight = [m \in {} |-> 0]
  /\ now = 0
  /\ resp = [op |-> "start", code |-> 0]

Init == variant = "json" /\ InitCommon

----------------------------------------------------------------------------
(* Requests common to all variants *)

Tick ==
  /\ \E t \in TimePoints : t > now
  /\ now' = CHOOSE t \in TimePoints :
               t > now /\ \A t2 \in TimePoints : t2 > now => t <= t2
  /\ UNCHANGED <<variant, db, inflight, resp>>

LinkLichess(u, h) ==
  /\ users' = [users EXCEPT ![u].lichess_username = h]
  /\ Respond("link", 200)
  /\ UNCHANGED <<variant, challenges, matches, appeals, transactions, inflight, now>>

Deposit(u, amount) ==
  /\ NumTx("deposit") < MaxDeposits
  /\ IF amount < MIN_DEPOSIT THEN Fail("deposit", 400)
     ELSE /\ users' = [users EXCEPT ![u].wallet_balance = Plus(@, amount)]
          /\ transactions' = insertTx(transactions,
               [user_id |-> u, type |-> "deposit", amount |-> amount,
                reference_id |-> "DEP", status |-> "completed"])
          /\ Respond("deposit", 200)
          /\ UNCHANGED <<variant, challenges, matches, appeals, inflight, now>>

(* withdraw without the balance test of lines 414-416 *)
WithdrawNoBalanceCheck(u, amount) ==
  /\ NumTx("withdrawal") < MaxWithdrawals
  /\ IF amount < MIN_WITHDRAWAL THEN Fail("withdraw", 400)
     ELSE /\ users' = [users EXCEPT ![u].wallet_balance = @ - amount]
          /\ transactions' = insertTx(transactions,
               [user_id |-> u, type |-> "withdrawal", amount |-> amount,
                reference_id |-> "WTH", status |-> "pending"])
          /\ Respond("withdraw", 200)
          /\ UNCHANGED <<variant, challenges, matches, appeals, inflight, now>>

Withdraw(u, amount) ==
  /\ NumTx("withdrawal") < MaxWithdrawals
  /\ IF amount < MIN_WITHDRAWAL THEN Fail("withdraw", 400)
     ELSE IF users[u].wallet_balance < amount THEN Fail("withdraw", 400)
     ELSE /\ users' = [users EXCEPT ![u].wallet_balance = @ - amount]
          /\ transactions' = insertTx(transactions,
               [user_id |-> u, type |-> "withdrawal", amount |-> amount,
                reference_id |-> "WTH", status |-> "pending"])
          /\ Respond("withdraw", 200)
          /\ UNCHANGED <<variant, challenges, matches, appeals, inflight, now>>

----------------------------------------------------------------------------
(* JSON-file variant: challenges *)

ChallengeIds == 1..MaxChallenges

(* the lookup without the status test *)
PendingChallengeAnyStatus(code) ==
  IF code \in 1..Len(challenges) THEN challenges[code] ELSE NotFound

(* challenge_code is unique per challenge; it is modelled by the id *)
PendingChallenge(code) ==
  IF code \in 1..Len(challenges) /\ challenges[code].status = "pending"
    THEN challenges[code] ELSE NotFound

(* POST /api/challenges/send *)
ChallengesSend(u, target, stake_amount) ==
  /\ variant = "json"
  /\ IF Less(stake_amount, MIN_STAKE) THEN Fail("send", 400)
     ELSE IF target \notin DOMAIN users THEN Fail("send", 404)
     ELSE IF target = u THEN Fail("send", 400)
     ELSE IF Less(users[u].wallet_balance, stake_amount) THEN Fail("send", 400)
     ELSE IF \E i \in 1..Len(challenges) :
                /\ challenges[i].creator_id = u
                /\ challenges[i].opponent_id = target
                /\ challenges[i].status = "pending"
                /\ challenges[i].expires_at > now
          THEN Fail("send", 400)
     ELSE /\ challenges' = insert(challenges,
               [creator_id |-> u, opponent_id |-> target,
                stake_amount |-> stake_amount, status |-> "pending",
                expires_at |-> now + CHALLENGE_EXPIRY_MINUTES,
                dx_fee |-> calculateFee(stake_amount).fee,
                winner_payout |-> calculateFee(stake_amount).winnerPayout])
          /\ Respond("send", 201)
          /\ UNCHANGED <<variant, users, matches, appeals, transactions, inflight, now>>

(* send, while the challenges table has room in the model *)
SendChallenge(u, target, stake_amount) ==
  /\ Len(challenges) < MaxChallenges
  /\ ChallengesSend(u, target, stake_amount)

(* accept: the balance changes of lines 559-565 *)
LockStakes(us, challenge, accepter) ==
  LET debited == [us EXCEPT
                    ![accepter].wallet_balance = Minus(@, challenge.stake_amount),
                    ![accepter].locked_balance =
                       Plus(OrZero(@), challenge.stake_amount)]
  IN  [debited EXCEPT
         ![challenge.creator_id].locked_balance =
            Plus(OrZero(@), challenge.stake_amount)]

NewMatch(challenge) ==
  [challenge_id |-> challenge.id,
   creator_id |-> challenge.creator_id,
   opponent_id |-> challenge.opponent_id,
   stake_amount |-> challenge.stake_amount,
   status |-> "in_progress",
   lichess_game_id |-> Null,
   winner_id |-> NoUser,
   dx_fee |-> calculateFee(challenge.stake_amount).fee,
   payout_amount |-> 0,
   appeal_deadline |-> NoDate]

(* accept without the expiry comparison of lines 549-551 *)
AcceptChallengeNoExpiry(u, code) ==
  /\ variant = "json"
  /\ LET challenge == PendingChallenge(code) IN
     IF challenge = NotFound \/ challenge.opponent_id # u THEN Fail("accept", 404)
     ELSE IF Less(users[u].wallet_balance, challenge.stake_amount)
       THEN Fail("accept", 400)
     ELSE /\ users' = LockStakes(users, challenge, u)
          /\ challenges' = update(challenges, challenge.id, [status |-> "accepted"])
          /\ matches' = insert(matches, NewMatch(challenge))
          /\ Respond("accept", 200)
          /\ UNCHANGED <<variant, appeals, transactions, inflight, now>>

AcceptChallenge(u, code) ==
  /\ variant = "json"
  /\ LET challenge == PendingChallenge(code) IN
     IF challenge = NotFound \/ challenge.opponent_id # u THEN Fail("accept", 404)
     ELSE IF challenge.expires_at < now THEN Fail("accept", 400)
     ELSE IF Less(users[u].wallet_balance, challenge.stake_amount)
       THEN Fail("accept", 400)
     ELSE /\ users' = LockStakes(users, challenge, u)
          /\ challenges' = update(challenges, challenge.id, [status |-> "accepted"])
          /\ matches' = insert(matches, NewMatch(challenge))
          /\ Respond("accept", 200)
          /\ UNCHANGED <<variant, appeals, transactions, inflight, now>>

DeclineChallenge(u, code) ==
  /\ variant = "json"
  /\ LET challenge == PendingChallenge(code) IN
     IF challenge = NotFound THEN Fail("decline", 404)
     ELSE IF challenge.opponent_id # u /\ challenge.creator_id # u
       THEN Fail("decline", 403)
     ELSE /\ challenges' = update(challenges, challenge.id, [status |-> "declined"])
          /\ Respond("decline", 200)
          /\ UNCHANGED <<variant, users, matches, appeals, transactions, inflight, now>>

(* cancel that also credits the stake to the proposer's wallet *)
CancelChallengeWithCredit(u, code) ==
  /\ variant = "json"
  /\ LET challenge == PendingChallenge(code) IN
     IF challenge = NotFound \/ challenge.creator_id # u THEN Fail("cancel", 404)
     ELSE /\ challenges' = update(challenges, challenge.id, [status |-> "cancelled"])
          /\ users' = [users EXCEPT
               ![u].wallet_balance = Plus(@, challenge.stake_amount)]
          /\ Respond("cancel", 200)
          /\ UNCHANGED <<variant, matches, appeals, transactions, inflight, now>>

CancelChallenge(u, code) ==
  /\ variant = "json"
  /\ LET challenge == PendingChallenge(code) IN
     IF challenge = NotFound \/ challenge.creator_id # u THEN Fail("cancel", 404)
     ELSE /\ challenges' = update(challenges, challenge.id, [status |-> "cancelled"])
          /\ Respond("cancel", 200)
          /\ UNCHANGED <<variant, users, matches, appeals, transactions, inflight, now>>

----------------------------------------------------------------------------
(* JSON-file variant: matches, appeals, disbursement *)

MatchIds == 1..MaxChallenges

(* inflight[m] is the number of submit-result handlers for match m that are
   suspended at `await fetchLichessGame(lichess_game_id)`.  A suspended
   handler holds match.id and the request's lichess_game_id; the game id is
   not read before the handler resumes, so the request's game id is drawn
   when the handler resumes. *)
NumInflight ==
  Cardinality({p \in (DOMAIN inflight) \X (1..MaxInflight) : p[2] <= inflight[p[1]]})

Suspend(fl, m) ==
  [x \in DOMAIN fl \cup {m} |-> IF x \in DOMAIN fl
                                  THEN (IF x = m THEN fl[x] + 1 ELSE fl[x])
                                  ELSE 1]

Resumed(fl, m) ==
  [x \in {y \in DOMAIN fl : y # m \/ fl[y] > 1} |->
     IF x = m THEN fl[x] - 1 ELSE fl[x]]

(* submit-result up to `await fetchLichessGame(lichess_game_id)` *)
SubmitResult(u, id) ==
  /\ variant = "json"
  /\ LET match == findById(matches, id) IN
     IF match = NotFound THEN Fail("submit", 404)
     ELSE IF match.creator_id # u /\ match.opponent_id # u THEN Fail("submit", 403)
     ELSE IF match.status # "in_progress" THEN Fail("submit", 400)
     ELSE /\ NumInflight < MaxInflight
          /\ inflight' = Suspend(inflight, id)
          /\ UNCHANGED <<variant, db, now, resp>>

(* lines 721-747: the winner of the fetched game, or Null *)
DetermineWinner(match, gameData, us) ==
  LET creatorLichess == toLowerCase(OrEmpty(us[match.creator_id].lichess_username))
      opponentLichess == toLowerCase(OrEmpty(us[match.opponent_id].lichess_username))
      whitePlayer == toLowerCase(OrEmpty(gameData.white))
      blackPlayer == toLowerCase(OrEmpty(gameData.black))
  IN  IF gameData.winner = Null THEN NoUser
      ELSE IF gameData.winner = "white" THEN
             IF whitePlayer = creatorLichess THEN match.creator_id
             ELSE IF whitePlayer = opponentLichess THEN match.opponent_id
             ELSE NoUser
      ELSE IF gameData.winner = "black" THEN
             IF blackPlayer = creatorLichess THEN match.creator_id
             ELSE IF blackPlayer = opponentLichess THEN match.opponent_id
             ELSE NoUser
      ELSE NoUser

(* lines 749-759: the fields submit-result writes into the match *)
ResultUpdate(match, lichess_game_id, gameData, us, t) ==
  [lichess_game_id |-> lichess_game_id,
   status |-> IF gameData.winner = Null THEN "draw" ELSE "awaiting_appeal",
   winner_id |-> DetermineWinner(match, gameData, us),
   appeal_deadline |-> t + APPEAL_PERIOD_MINUTES]

(* submit-result after the await; fetched is FALSE when fetchLichessGame
   returned null *)
SubmitResultResume(id, lichess_game_id, fetched) ==
  /\ variant = "json"
  /\ id \in DOMAIN inflight
  /\ inflight' = Resumed(inflight, id)
  /\ IF ~fetched
       THEN /\ Respond("submit", 400)
            /\ UNCHANGED <<variant, db, now>>
       ELSE /\ matches' = update(matches, id,
                 ResultUpdate(findById(matches, id), lichess_game_id,
                              Games[lichess_game_id], users, now))
            /\ Respond("submit", 200)
            /\ UNCHANGED <<variant, users, challenges, appeals, transactions, now>>

(* appeal without the deadline comparison of lines 790-792 *)
SubmitAppealNoDeadline(u, id) ==
  /\ variant = "json"
  /\ LET match == findById(matches, id) IN
     IF match = NotFound THEN Fail("appeal", 404)
     ELSE IF match.creator_id # u /\ match.opponent_id # u THEN Fail("appeal", 403)
     ELSE IF match.status # "awaiting_appeal" THEN Fail("appeal", 400)
     ELSE IF \E i \in 1..Len(appeals) :
                appeals[i].match_id = match.id /\ appeals[i].user_id = u
          THEN Fail("appeal", 400)
     ELSE /\ appeals' = insert(appeals,
               [match_id |-> match.id, user_id |-> u, status |-> "pending",
                resolved_by |-> NoUser])
          /\ matches' = update(matches, match.id, [status |-> "appealed"])
          /\ Respond("appeal", 200)
          /\ UNCHANGED <<variant, users, challenges, transactions, inflight, now>>

(* appeal without the participant check of lines 782-784 *)
SubmitAppealAnyUser(u, id) ==
  /\ variant = "json"
  /\ LET match == findById(matches, id) IN
     IF match = NotFound THEN Fail("appeal", 404)
     ELSE IF match.status # "awaiting_appeal" THEN Fail("appeal", 400)
     ELSE IF match.appeal_deadline < now THEN Fail("appeal", 400)
     ELSE IF \E i \in 1..Len(appeals) :
                appeals[i].match_id = match.id /\ appeals[i].user_id = u
          THEN Fail("appeal", 400)
     ELSE /\ appeals' = insert(appeals,
               [match_id |-> match.id, user_id |-> u, status |-> "pending",
                resolved_by |-> NoUser])
          /\ matches' = update(matches, match.id, [status |-> "appealed"])
          /\ Respond("appeal", 200)
          /\ UNCHANGED <<variant, users, challenges, transactions, inflight, now>>

(* appeal without the existingAppeal check of lines 794-801 *)
SubmitAppealNoExisting(u, id) ==
  /\ variant = "json"
  /\ LET match == findById(matches, id) IN
     IF match = NotFound THEN Fail("appeal", 404)
     ELSE IF match.creator_id # u /\ match.opponent_id # u THEN Fail("appeal", 403)
     ELSE IF match.status # "awaiting_appeal" THEN Fail("appeal", 400)
     ELSE IF match.appeal_deadline < now THEN Fail("appeal", 400)
     ELSE /\ appeals' = insert(appeals,
               [match_id |-> match.id, user_id |-> u, status |-> "pending",
                resolved_by |-> NoUser])
          /\ matches' = update(matches, match.id, [status |-> "appealed"])
          /\ Respond("appeal", 200)
          /\ UNCHANGED <<variant, users, challenges, transactions, inflight, now>>

SubmitAppeal(u, id) ==
  /\ variant = "json"
  /\ LET match == findById(matches, id) IN
     IF match = NotFound THEN Fail("appeal", 404)
     ELSE IF match.creator_id # u /\ match.opponent_id # u THEN Fail("appeal", 403)
     ELSE IF match.status # "awaiting_appeal" THEN Fail("appeal", 400)
     ELSE IF match.appeal_deadline < now THEN Fail("appeal", 400)
     ELSE IF \E i \in 1..Len(appeals) :
                appeals[i].match_id = match.id /\ appeals[i].user_id = u
          THEN Fail("appeal", 400)
     ELSE /\ appeals' = insert(appeals,
               [match_id |-> match.id, user_id |-> u, status |-> "pending",
                resolved_by |-> NoUser])
          /\ matches' = update(matches, match.id, [status |-> "appealed"])
          /\ Respond("appeal", 200)
          /\ UNCHANGED <<variant, users, challenges, transactions, inflight, now>>

(* match.winner_payout || match.payout_amount *)
WinnerCredit(match) ==
  IF "winner_payout" \in DOMAIN match /\ match.winner_payout # 0
    THEN match.winner_payout ELSE match.payout_amount

(* lines 848-856: refund both players *)
SettleDraw(us, match) ==
  LET c == match.creator_id
      o == match.opponent_id
      afterCreator == [us EXCEPT
                         ![c].wallet_balance = @ + match.stake_amount,
                         ![c].locked_balance = @ - match.stake_amount]
  IN  [afterCreator EXCEPT
         ![o].wallet_balance = @ + match.stake_amount,
         ![o].locked_balance = @ - match.stake_amount]

(* lines 874-886: pay winner, release the loser's stake *)
SettleWinner(us, match) ==
  LET winner == match.winner_id
      loser == IF winner = match.creator_id THEN match.opponent_id
               ELSE match.creator_id
      afterWinner == [us EXCEPT
                        ![winner].wallet_balance = @ + WinnerCredit(match),
                        ![winner].locked_balance = @ - match.stake_amount]
  IN  [afterWinner EXCEPT ![loser].locked_balance = @ - match.stake_amount]

DrawTransactions(txs, match) ==
  insertTx(insertTx(txs,
      [user_id |-> match.creator_id, type |-> "refund",
       amount |-> match.stake_amount, reference_id |-> <<"REF", match.id>>,
       status |-> Missing]),
      [user_id |-> match.opponent_id, type |-> "refund",
       amount |-> match.stake_amount, reference_id |-> <<"REF", match.id>>,
       status |-> Missing])

WinnerTransactions(txs, match) ==
  insertTx(insertTx(txs,
      [user_id |-> match.winner_id, type |-> "winning",
       amount |-> WinnerCredit(match), reference_id |-> <<"WIN", match.id>>,
       status |-> Missing]),
      [user_id |-> NoUser, type |-> "platform_fee",
       amount |-> match.dx_fee, reference_id |-> <<"FEE", match.id>>,
       status |-> Missing])

(* process-disbursement guards without the appeal-deadline comparison *)
ReadyForDisbursementNoDeadline(match, t) ==
  /\ match.status \in {"awaiting_appeal", "draw"}
  /\ ~ ( /\ match.status = "awaiting_appeal"
         /\ match.appeal_deadline # NoDate
         /\ \E i \in 1..Len(appeals) :
              appeals[i].match_id = match.id /\ appeals[i].status = "pending" )

(* lines 828-843: TRUE when process-disbursement passes its guards *)
ReadyForDisbursement(match, t) ==
  /\ match.status \in {"awaiting_appeal", "draw"}
  /\ ~ ( /\ match.status = "awaiting_appeal"
         /\ match.appeal_deadline # NoDate
         /\ \/ match.appeal_deadline > t
            \/ \E i \in 1..Len(appeals) :
                 appeals[i].match_id = match.id /\ appeals[i].status = "pending" )

ProcessDisbursement(id) ==
  /\ variant = "json"
  /\ LET match == findById(matches, id) IN
     IF match = NotFound THEN Fail("disburse", 404)
     ELSE IF ~ReadyForDisbursement(match, now) THEN Fail("disburse", 400)
     ELSE /\ IF match.status = "draw"
               THEN /\ users' = SettleDraw(users, match)
                    /\ transactions' = DrawTransactions(transactions, match)
               ELSE IF match.winner_id # NoUser
               THEN /\ users' = SettleWinner(users, match)
                    /\ transactions' = WinnerTransactions(transactions, match)
               ELSE UNCHANGED <<users, transactions>>
          /\ matches' = update(matches, match.id, [status |-> "disbursed"])
          /\ Respond("disburse", 200)
          /\ UNCHANGED <<variant, challenges, appeals, inflight, now>>

(* resolve that marks the match disputed whatever the decision *)
ResolveAppealAlwaysDisputed(u, id, decision) ==
  /\ variant = "json"
  /\ LET appeal == findById(appeals, id) IN
     IF users[u].is_admin = 0 THEN Fail("resolve", 403)
     ELSE IF appeal = NotFound THEN Fail("resolve", 404)
     ELSE /\ appeals' = update(appeals, appeal.id,
               [status |-> IF decision = "upheld" THEN "upheld" ELSE "rejected",
                resolved_by |-> u])
          /\ matches' = update(matches, appeal.match_id, [status |-> "disputed"])
          /\ Respond("resolve", 200)
          /\ UNCHANGED <<variant, users, challenges, transactions, inflight, now>>

ResolveAppeal(u, id, decision) ==
  /\ variant = "json"
  /\ LET appeal == findById(appeals, id) IN
     IF users[u].is_admin = 0 THEN Fail("resolve", 403)
     ELSE IF appeal = NotFound THEN Fail("resolve", 404)
     ELSE /\ appeals' = update(appeals, appeal.id,
               [status |-> IF decision = "upheld" THEN "upheld" ELSE "rejected",
                resolved_by |-> u])
          /\ IF decision = "upheld"
               THEN matches' = update(matches, appeal.match_id,
                                      [status |-> "disputed"])
               ELSE UNCHANGED matches
          /\ Respond("resolve", 200)
          /\ UNCHANGED <<variant, users, challenges, transactions, inflight, now>>

----------------------------------------------------------------------------
(* The JSON-file variant *)

Next ==
  \/ Tick
  \/ \E l \in LinkInputs : LinkLichess(l[1], l[2])
  \/ \E u \in Players, a \in DepositAmounts : Deposit(u, a)
  \/ \E u \in Players, a \in WithdrawAmounts : Withdraw(u, a)
  \/ \E p \in SendInputs, s \in StakeAmounts : SendChallenge(p[1], p[2], s)
  \/ \E u \in UserIds, c \in ChallengeIds : AcceptChallenge(u, c)
  \/ \E u \in UserIds, c \in ChallengeIds : DeclineChallenge(u, c)
  \/ \E u \in UserIds, c \in ChallengeIds : CancelChallenge(u, c)
  \/ \E u \in UserIds, m \in MatchIds : SubmitResult(u, m)
  \/ \E m \in MatchIds, g \in GameIds, f \in BOOLEAN : SubmitResultResume(m, g, f)
  \/ \E u \in UserIds, m \in MatchIds : SubmitAppeal(u, m)
  \/ \E m \in MatchIds : ProcessDisbursement(m)
  \/ \E u \in UserIds, a \in 1..(Len(appeals) + 1), d \in {"upheld", "rejected"} :
       ResolveAppeal(u, a, d)

Spec == Init /\ [][Next]_vars

----------------------------------------------------------------------------
(* calculateFee alone: a call with each stake of FeeStakes *)

FeeStakes == (MIN_STAKE..(MIN_STAKE + MaxFeeStakes)) \cup {1000, 5000}

InitFee ==
  /\ variant = "json"
  /\ users = [u \in UserIds |-> NewUser(IF u \in Admins THEN 1 ELSE 0)]
  /\ challenges = <<>>
  /\ matches = <<>>
  /\ appeals = <<>>
  /\ transactions = EmptyBag
  /\ inflight = [m \in {} |-> 0]
  /\ now = 0
  /\ \E stakeAmount \in FeeStakes :
       resp = [op |-> "calculateFee", code |-> 0, stakeAmount |-> stakeAmount]

ApplyCalculateFee ==
  /\ resp.op = "calculateFee"
  /\ resp.code = 0
  /\ resp' = [op |-> "calculateFee", code |-> 200,
              stakeAmount |-> resp.stakeAmount,
              result |-> calculateFeeHundredths(resp.stakeAmount)]
  /\ UNCHANGED <<variant, db, inflight, now>>

NextFee == ApplyCalculateFee

SpecFee == InitFee /\ [][NextFee]_vars

----------------------------------------------------------------------------
(* JSON-file variant: the challenge registry alone, with room for a second
   challenge and with request bodies that carry no stake_amount *)

MaxStoredChallenges == 2
StoredChallengeIds == 1..MaxStoredChallenges
StakeInputs == StakeAmounts \cup {NotANumber}

SendStoredChallenge(u, target, stake_amount) ==
  /\ Len(challenges) < MaxStoredChallenges
  /\ ChallengesSend(u, target, stake_amount)

NextChallenges ==
  \/ Tick
  \/ \E u \in Players, a \in DepositAmounts : Deposit(u, a)
  \/ \E p \in SendInputs, s \in StakeInputs : SendStoredChallenge(p[1], p[2], s)
  \/ \E u \in UserIds, c \in StoredChallengeIds : AcceptChallenge(u, c)
  \/ \E u \in UserIds, c \in StoredChallengeIds : DeclineChallenge(u, c)
  \/ \E u \in UserIds, c \in StoredChallengeIds : CancelChallenge(u, c)

SpecChallenges == Init /\ [][NextChallenges]_vars

----------------------------------------------------------------------------
(* SQL variants (better-sqlite3: "sqlite", sql.js: "sqljs") *)

SqlMatchIds == 1..MaxSqlMatches

InitSql == variant \in {"sqlite", "sqljs"} /\ InitCommon

(* UPDATE users SET wallet_balance = wallet_balance - ?,
                    locked_balance = locked_balance + ? WHERE id = ? *)
LockStake(us, u, stake_amount) ==
  [us EXCEPT ![u].wallet_balance = @ - stake_amount,
             ![u].locked_balance = @ + stake_amount]

CreateMatch(u, stake_amount, time_control) ==
  /\ variant \in {"sqlite", "sqljs"}
  /\ Len(matches) < MaxSqlMatches
  /\ IF stake_amount < MIN_STAKE THEN Fail("create", 400)
     ELSE IF users[u].wallet_balance < stake_amount THEN Fail("create", 400)
     ELSE /\ users' = LockStake(users, u, stake_amount)
          /\ matches' = insert(matches,
               [creator_id |-> u, opponent_id |-> NoUser,
                stake_amount |-> stake_amount, time_control |-> time_control,
                status |-> "open", winner_id |-> NoUser,
                lichess_game_id |-> Null,
                dx_fee |-> calculateFee(stake_amount).fee,
                payout_amount |-> 0])
          /\ Respond("create", 201)
          /\ UNCHANGED <<variant, challenges, appeals, transactions, inflight, now>>

(* the lookup without status = 'open' *)
OpenMatchAnyStatus(challengeId) ==
  IF challengeId \in 1..Len(matches) THEN matches[challengeId] ELSE NotFound

(* challenge_id is unique per match; it is modelled by the id *)
OpenMatch(challengeId) ==
  IF challengeId \in 1..Len(matches) /\ matches[challengeId].status = "open"
    THEN matches[challengeId] ELSE NotFound

AcceptMatch(u, challengeId) ==
  /\ variant \in {"sqlite", "sqljs"}
  /\ LET match == OpenMatch(challengeId) IN
     IF match = NotFound THEN Fail("accept", 404)
     ELSE IF match.creator_id = u THEN Fail("accept", 400)
     ELSE IF users[u].wallet_balance < match.stake_amount THEN Fail("accept", 400)
     ELSE /\ users' = LockStake(users, u, match.stake_amount)
          /\ matches' = update(matches, match.id,
                               [opponent_id |-> u, status |-> "pending_game"])
          /\ Respond("accept", 200)
          /\ UNCHANGED <<variant, challenges, appeals, transactions, inflight, now>>

(* SELECT m.*, uc.lichess_username as creator_lichess,
          uo.lichess_username as opponent_lichess
   FROM matches m JOIN users uc ... JOIN users uo ... WHERE m.id = ? *)
MatchRow(id) ==
  LET m == findById(matches, id) IN
  IF m = NotFound THEN NotFound
  ELSE IF m.opponent_id \notin DOMAIN users THEN NotFound
  ELSE Merge(m, [creator_lichess |-> users[m.creator_id].lichess_username,
                 opponent_lichess |-> users[m.opponent_id].lichess_username])

(* submit-result up to `await fetchLichessGame(lichess_game_id)`; the
   suspended handler keeps the row it has read *)
SqlSubmitResult(u, matchId) ==
  /\ variant \in {"sqlite", "sqljs"}
  /\ LET match == MatchRow(matchId) IN
     IF match = NotFound THEN Fail("submit", 404)
     ELSE IF match.creator_id # u /\ match.opponent_id # u THEN Fail("submit", 403)
     ELSE /\ NumInflight < MaxInflight
          /\ NumTx("platform_fee") + NumInflight < MaxSqlResults
          /\ inflight' = Suspend(inflight, match)
          /\ UNCHANGED <<variant, db, now, resp>>

(* x?.toLowerCase() *)
LowerOpt(x) == IF x = Null \/ x = Missing THEN Missing ELSE toLowerCase(x)

(* server.js lines 512-528 *)
SqliteWinner(match, gameData) ==
  IF gameData.winner = "white" THEN
    IF LowerOpt(gameData.white) = LowerOpt(match.creator_lichess)
      THEN match.creator_id ELSE match.opponent_id
  ELSE IF gameData.winner = "black" THEN
    IF LowerOpt(gameData.black) = LowerOpt(match.creator_lichess)
      THEN match.creator_id ELSE match.opponent_id
  ELSE NoUser

(* sql.js variant lines 2415-2443 *)
SqljsWinner(match, gameData) ==
  LET creatorLichess == toLowerCase(OrEmpty(match.creator_lichess))
      opponentLichess == toLowerCase(OrEmpty(match.opponent_lichess))
      whitePlayer == toLowerCase(OrEmpty(gameData.white))
      blackPlayer == toLowerCase(OrEmpty(gameData.black))
  IN  IF gameData.winner = Null THEN NoUser
      ELSE IF gameData.winner = "white" THEN
             IF whitePlayer = creatorLichess THEN match.creator_id
             ELSE IF whitePlayer = opponentLichess THEN match.opponent_id
             ELSE NoUser
      ELSE IF gameData.winner = "black" THEN
             IF blackPlayer = creatorLichess THEN match.creator_id
             ELSE IF blackPlayer = opponentLichess THEN match.opponent_id
             ELSE NoUser
      ELSE NoUser

SqlWinner(match, gameData) ==
  IF variant = "sqlite" THEN SqliteWinner(match, gameData)
  ELSE SqljsWinner(match, gameData)

(* the balance updates after the match row is written *)
SqlSettle(us, match, isDraw, winnerId) ==
  LET loserId == IF winnerId = match.creator_id THEN match.opponent_id
                 ELSE match.creator_id
      winnerPayout == (match.stake_amount * 2) - match.dx_fee
  IN  IF isDraw THEN
        [us EXCEPT
           ![match.creator_id].wallet_balance = @ + match.stake_amount,
           ![match.creator_id].locked_balance = @ - match.stake_amount,
           ![match.opponent_id].wallet_balance = @ + match.stake_amount,
           ![match.opponent_id].locked_balance = @ - match.stake_amount]
      ELSE IF winnerId # NoUser THEN
        [us EXCEPT
           ![winnerId].wallet_balance = @ + winnerPayout,
           ![winnerId].locked_balance = @ - match.stake_amount,
           ![loserId].locked_balance = @ - match.stake_amount]
      ELSE us

(* submit-result after the await.  match is the row read before the await. *)
SqlSubmitResultResume(match, lichess_game_id, fetched) ==
  /\ variant \in {"sqlite", "sqljs"}
  /\ match \in DOMAIN inflight
  /\ inflight' = Resumed(inflight, match)
  /\ LET gameData == Games[lichess_game_id]
         isDraw == gameData.winner = Null
         winnerId == SqlWinner(match, gameData)
     IN
     IF ~fetched
       THEN /\ Respond("submit", 400)
            /\ UNCHANGED <<variant, db, now>>
     ELSE IF variant = "sqlite" /\ gameData.speed # match.time_control
       THEN /\ Respond("submit", 400)
            /\ UNCHANGED <<variant, db, now>>
     ELSE /\ matches' = update(matches, match.id,
               [lichess_game_id |-> lichess_game_id,
                status |-> IF isDraw THEN "draw" ELSE "completed",
                winner_id |-> winnerId,
                payout_amount |-> IF isDraw THEN match.stake_amount
                                  ELSE (match.stake_amount * 2) - match.dx_fee])
          /\ users' = SqlSettle(users, match, isDraw, winnerId)
          /\ transactions' = insertTx(transactions,
               [user_id |-> NoUser, type |-> "platform_fee",
                amount |-> match.dx_fee, reference_id |-> <<"FEE", match.id>>,
                status |-> "completed"])
          /\ Respond("submit", 200)
          /\ UNCHANGED <<variant, challenges, appeals, now>>

(* Admin decisions on withdrawals.  The columns of the transactions table
   (server.js lines 76-86, part_000 lines 2035-2045): it has no updated_at *)
TransactionsColumns ==
  {"id", "user_id", "type", "amount", "description", "reference_id",
   "status", "created_at"}

(* UPDATE transactions SET status = ?, updated_at = CURRENT_TIMESTAMP:
   the statement is run only if every column it assigns exists; otherwise
   prepare()/db.run() throws and the handler ends with a 500 *)
UpdateTransactionRuns == {"status", "updated_at"} \subseteq TransactionsColumns

SetTxStatus(txs, r, status) ==
  (txs (-) SetToBag({r})) (+) SetToBag({[r EXCEPT !.status = status]})

(* SELECT t.* FROM transactions t JOIN users u ... WHERE t.id = ? AND
   t.status = 'pending' *)
PendingTransaction(r) ==
  /\ r \in DOMAIN transactions
  /\ r.status = "pending"
  /\ r.user_id \in DOMAIN users

SqlApproveWithdrawal(u, r) ==
  /\ variant \in {"sqlite", "sqljs"}
  /\ IF users[u].is_admin = 0 THEN Fail("approve", 403)
     ELSE IF ~PendingTransaction(r) THEN Fail("approve", 404)
     ELSE IF ~UpdateTransactionRuns THEN Fail("approve", 500)
     ELSE /\ transactions' = SetTxStatus(transactions, r, "approved")
          /\ Respond("approve", 200)
          /\ UNCHANGED <<variant, users, challenges, matches, appeals, inflight, now>>

(* reject: the wallet is credited before the transaction row is updated *)
SqlRejectWithdrawal(u, r) ==
  /\ variant \in {"sqlite", "sqljs"}
  /\ IF users[u].is_admin = 0 THEN Fail("reject", 403)
     ELSE IF ~PendingTransaction(r) THEN Fail("reject", 404)
     ELSE /\ users[r.user_id].wallet_balance + r.amount <= MaxRefundedBalance
          /\ users' = [users EXCEPT ![r.user_id].wallet_balance = @ + r.amount]
          /\ IF UpdateTransactionRuns
               THEN /\ transactions' = SetTxStatus(transactions, r, "rejected")
                    /\ Respond("reject", 200)
               ELSE /\ transactions' = transactions
                    /\ Respond("reject", 500)
          /\ UNCHANGED <<variant, challenges, matches, appeals, inflight, now>>

NextSql ==
  \/ \E l \in LinkInputs : LinkLichess(l[1], l[2])
  \/ \E u \in Players, a \in DepositAmounts : Deposit(u, a)
  \/ \E u \in Players, a \in WithdrawAmounts : Withdraw(u, a)
  \/ \E u \in Players, s \in StakeAmounts, tc \in TimeControls : CreateMatch(u, s, tc)
  \/ \E u \in UserIds, m \in SqlMatchIds : AcceptMatch(u, m)
  \/ \E u \in UserIds, m \in SqlMatchIds : SqlSubmitResult(u, m)
  \/ \E r \in DOMAIN inflight, g \in GameIds, f \in BOOLEAN :
       SqlSubmitResultResume(r, g, f)
  \/ \E u \in UserIds, r \in DOMAIN transactions : SqlApproveWithdrawal(u, r)
  \/ \E u \in UserIds, r \in DOMAIN transactions : SqlRejectWithdrawal(u, r)

SpecSql == InitSql /\ [][NextSql]_vars

----------------------------------------------------------------------------
(* The SQL variants with one player sending requests and nobody else: every
   request the routes offer to a logged-in player.  No submit-result handler
   is ever suspended here, because the row lookup of submit-result joins the
   opponent and an open match has none. *)

LonePlayers == {1}

NextSqlAlone ==
  \/ \E u \in LonePlayers, l \in LinkInputs : LinkLichess(u, l[2])
  \/ \E u \in LonePlayers, a \in DepositAmounts : Deposit(u, a)
  \/ \E u \in LonePlayers, a \in WithdrawAmounts : Withdraw(u, a)
  \/ \E u \in LonePlayers, s \in StakeAmounts, tc \in TimeControls :
       CreateMatch(u, s, tc)
  \/ \E u \in LonePlayers, m \in SqlMatchIds : AcceptMatch(u, m)
  \/ \E u \in LonePlayers, m \in SqlMatchIds : SqlSubmitResult(u, m)

(* the server answers every request it is sent, and the player keeps
   sending requests *)
SpecSqlAlone == InitSql /\ [][NextSqlAlone]_vars /\ WF_vars(NextSqlAlone)

----------------------------------------------------------------------------
(* Ledger read from the transactions table *)

RECURSIVE SumAmounts(_)
SumAmounts(bag) ==
  IF DOMAIN bag = {} THEN 0
  ELSE LET r == CHOOSE x \in DOMAIN bag : TRUE
       IN  r.amount * bag[r] + SumAmounts([x \in DOMAIN bag \ {r} |-> bag[x]])

TxRows(type, user) ==
  [r \in {x \in DOMAIN transactions : x.type = type /\ x.user_id = user} |->
     transactions[r]]

Deposited(u) == SumAmounts(TxRows("deposit", u))
Withdrawn(u) == SumAmounts(TxRows("withdrawal", u))

(* number of rows of a type that carry a reference id *)
TxCount(type, ref) ==
  BagCardinality([r \in {x \in DOMAIN transactions :
                           x.type = type /\ x.reference_id = ref} |->
                    transactions[r]])

Participants(match) == {match.creator_id, match.opponent_id}

PendingAppeals(id) ==
  {i \in 1..Len(appeals) : appeals[i].match_id = id /\ appeals[i].status = "pending"}

RefundedOnce(id) ==
  TxCount("refund", <<"REF", id>>) = 2 /\ TxCount("winning", <<"WIN", id>>) = 0

PaidOnce(id) ==
  TxCount("refund", <<"REF", id>>) = 0 /\ TxCount("winning", <<"WIN", id>>) = 1

(* the winning side's username equals the linked handle of participant p *)
HandleMatches(gameData, us, p) ==
  LET name == IF gameData.winner = "white" THEN gameData.white ELSE gameData.black
  IN  /\ name \notin {Null, Missing}
      /\ us[p].lichess_username \notin {Null, Missing}
      /\ toLowerCase(name) = toLowerCase(us[p].lichess_username)

----------------------------------------------------------------------------
(* Claims about the JSON-file variant *)

(* C1: a match's payout/refund is applied at most once over any sequence of
   requests: the transactions table never holds more than one settlement
   (two refund rows, or one winning row) for a match. *)
C1_SettledAtMostOnce ==
  \A i \in 1..Len(matches) :
    \/ TxCount("refund", <<"REF", i>>) + TxCount("winning", <<"WIN", i>>) = 0
    \/ RefundedOnce(i)
    \/ PaidOnce(i)

(* C1, first half (holds): process-disbursement on a disbursed match answers
   400 and changes nothing stored. *)
C1_SecondCallFails ==
  [][\A i \in MatchIds :
       (i <= Len(matches) /\ matches[i].status = "disbursed" /\ ProcessDisbursement(i))
         => (resp'.code = 400 /\ db' = db)]_vars

(* C2: when a match with a determined winner (the winning side's username
   is the winner's linked handle) is disbursed, the winner's available
   balance grows by exactly pot minus fee, the loser's locked balance drops
   by exactly the stake and the loser's available balance is not credited. *)
C2_WinnerGetsPotMinusFee ==
  [][\A i \in 1..Len(matches) :
       ( /\ matches[i].status = "awaiting_appeal"
         /\ matches[i].winner_id # NoUser
         /\ HandleMatches(Games[matches[i].lichess_game_id], users,
                          matches[i].winner_id)
         /\ matches'[i].status = "disbursed" )
       => LET m == matches[i]
              w == m.winner_id
              l == IF w = m.creator_id THEN m.opponent_id ELSE m.creator_id
          IN  /\ users'[w].wallet_balance =
                   users[w].wallet_balance + calculateFee(m.stake_amount).winnerPayout
              /\ users'[l].locked_balance = users[l].locked_balance - m.stake_amount
              /\ users'[l].wallet_balance = users[l].wallet_balance]_vars

(* C3: once the only match has ended in a draw and been refunded (once),
   each participant's available balance is what it was before the challenge
   was accepted, i.e. its deposits less its withdrawals, and nothing of it
   is locked. *)
C3_DrawRestoresBalances ==
  \A i \in 1..Len(matches) :
    (Len(matches) = 1 /\ matches[i].status = "disbursed" /\ RefundedOnce(i))
      => \A u \in Participants(matches[i]) :
           /\ users[u].wallet_balance = Deposited(u) - Withdrawn(u)
           /\ users[u].locked_balance = 0

(* C4: a successful accept moves the stake from available to locked for the
   accepter and for the proposer. *)
C4_AcceptLocksBothStakes ==
  [][\A c \in 1..Len(challenges) :
       (challenges[c].status = "pending" /\ challenges'[c].status = "accepted")
       => \A u \in {challenges[c].creator_id, challenges[c].opponent_id} :
            /\ users'[u].wallet_balance =
                 users[u].wallet_balance - challenges[c].stake_amount
            /\ users'[u].locked_balance =
                 users[u].locked_balance + challenges[c].stake_amount]_vars

(* C5: after the full lifecycle of the only match (accept, submit-result,
   one disbursement) available + locked summed over the two participants
   has changed by minus the fee when there was a winner and by zero on a
   draw; before the match it was deposits less withdrawals. *)
C5_LifecycleConservesMoney ==
  \A i \in 1..Len(matches) :
    ( /\ Len(matches) = 1
      /\ matches[i].status = "disbursed"
      /\ RefundedOnce(i) \/ PaidOnce(i) )
    => LET c == matches[i].creator_id
           o == matches[i].opponent_id
           held == users[c].wallet_balance + users[c].locked_balance
                   + users[o].wallet_balance + users[o].locked_balance
           funded == Deposited(c) - Withdrawn(c) + Deposited(o) - Withdrawn(o)
       IN  held = funded - (IF PaidOnce(i) THEN matches[i].dx_fee ELSE 0)

(* C8: when the fetched game has a winning side whose username matches
   neither participant's linked handle, submit-result answers with an error
   and leaves the match as it was (in_progress). *)
C8_UnmappableWinnerRejected ==
  [][\A id \in MatchIds, g \in GameIds :
       ( /\ SubmitResultResume(id, g, TRUE)
         /\ matches[id].status = "in_progress"
         /\ Games[g].winner \in {"white", "black"}
         /\ \A p \in Participants(matches[id]) : ~HandleMatches(Games[g], users, p) )
       => (resp'.code = 400 /\ matches' = matches)]_vars

(* C10: process-disbursement on a match in awaiting_appeal fails and changes
   nothing while now is before the appeal deadline or an appeal on the match
   is pending; no such match becomes disbursed. *)
C10_NoEarlyDisbursement ==
  [][\A i \in MatchIds :
       ( /\ i <= Len(matches)
         /\ matches[i].status = "awaiting_appeal"
         /\ \/ matches[i].appeal_deadline > now
            \/ PendingAppeals(i) # {} )
       => /\ matches'[i].status # "disbursed"
          /\ ProcessDisbursement(i) => (resp'.code = 400 /\ db' = db)]_vars

C10_Witness ==
  \E i \in 1..Len(matches) :
    /\ matches[i].status = "awaiting_appeal"
    /\ matches[i].appeal_deadline > now
    /\ resp = [op |-> "disburse", code |-> 400]

----------------------------------------------------------------------------
(* Claims about the SQL variants *)

(* C6: in every reachable state every account has available balance >= 0
   and locked balance >= 0. *)
C6_BalancesNonNegative ==
  \A u \in UserIds :
    users[u].wallet_balance >= 0 /\ users[u].locked_balance >= 0

(* C7: a submit-result handler that has read its match in a state other
   than pending_game answers with an error and changes neither the match
   nor any balance. *)
C7_ResultOnlyFromPendingGame ==
  [][\A r \in DOMAIN inflight, g \in GameIds :
       (SqlSubmitResultResume(r, g, TRUE) /\ r.status # "pending_game")
         => (resp'.code # 200 /\ db' = db)]_vars

(* C9: a participant is recorded as the winner only when the winning side's
   username equals that participant's linked handle (case-insensitively);
   when it equals neither participant's handle no participant is recorded
   as winner and no balance is credited. *)
C9_NoFabricatedWinner ==
  [][\A r \in DOMAIN inflight, g \in GameIds :
       ( /\ SqlSubmitResultResume(r, g, TRUE)
         /\ resp'.code = 200
         /\ Games[g].winner \in {"white", "black"} )
       => LET w == matches'[r.id].winner_id IN
          /\ w # NoUser => HandleMatches(Games[g], users, w)
          /\ (\A p \in Participants(r) : ~HandleMatches(Games[g], users, p))
               => /\ w = NoUser
                  /\ \A u \in UserIds :
                       users'[u].wallet_balance = users[u].wallet_balance]_vars

----------------------------------------------------------------------------
(* Claims about challenges and stake locks (JSON-file variant) *)

(* C11: accept on a challenge that is no longer pending (accepted, declined
   or cancelled) or whose expiry time has passed answers with an error and
   leaves every balance and every table unchanged. *)
C11_AcceptStaleFails ==
  [][\A u \in UserIds, c \in ChallengeIds :
       ( /\ c <= Len(challenges)
         /\ \/ challenges[c].status # "pending"
            \/ challenges[c].expires_at < now
         /\ AcceptChallenge(u, c) )
       => (resp'.code \in {400, 404} /\ db' = db)]_vars

(* the target of an expired pending challenge, holding enough to cover the
   stake, has just been refused *)
C11_Witness ==
  \E c \in 1..Len(challenges) :
    /\ challenges[c].status = "pending"
    /\ challenges[c].expires_at < now
    /\ users[challenges[c].opponent_id].wallet_balance >= challenges[c].stake_amount
    /\ resp = [op |-> "accept", code |-> 400]

(* C12: no step increases an account's locked balance unless that account's
   available balance covers the increase at that moment. *)
C12_LockGuardedByFunds ==
  [][\A u \in UserIds :
       users'[u].locked_balance > users[u].locked_balance
         => users[u].wallet_balance
              >= users'[u].locked_balance - users[u].locked_balance]_vars

(* stakes of the matches of u, among the first n, that are not disbursed *)
RECURSIVE OpenStakes(_, _)
OpenStakes(u, n) ==
  IF n = 0 THEN 0
  ELSE OpenStakes(u, n - 1)
       + (IF u \in Participants(matches[n]) /\ matches[n].status # "disbursed"
            THEN matches[n].stake_amount ELSE 0)

(* C13: every account's locked balance equals the sum of the stakes of its
   matches that have been accepted and not yet disbursed. *)
C13_LockedEqualsOpenStakes ==
  \A u \in UserIds : users[u].locked_balance = OpenStakes(u, Len(matches))

----------------------------------------------------------------------------
(* Claims about appeals (JSON-file variant) *)

(* C14: an appeal filed after the match's appeal deadline is answered with
   an error, creates no appeal record and does not change the match. *)
C14_LateAppealRejected ==
  [][\A u \in UserIds, i \in MatchIds :
       ( /\ i <= Len(matches)
         /\ matches[i].appeal_deadline # NoDate
         /\ matches[i].appeal_deadline < now
         /\ SubmitAppeal(u, i) )
       => (resp'.code >= 400 /\ appeals' = appeals /\ matches' = matches)]_vars

(* a participant who has not appealed has just been refused on a match that
   awaits appeal after its deadline *)
C14_Witness ==
  \E i \in 1..Len(matches) :
    /\ matches[i].status = "awaiting_appeal"
    /\ matches[i].appeal_deadline < now
    /\ \A a \in 1..Len(appeals) : appeals[a].match_id # i
    /\ resp = [op |-> "appeal", code |-> 400]

(* C15: an appeal succeeds only for a participant of a match that is
   awaiting_appeal; on success the match becomes appealed and one pending
   appeal record of the filer is added; otherwise the call answers with an
   error and nothing stored changes. *)
C15_AppealOnlyWhileAwaiting ==
  [][\A u \in UserIds, i \in MatchIds :
       (resp'.op = "appeal" /\ SubmitAppeal(u, i))
       => IF resp'.code = 200
            THEN /\ i <= Len(matches)
                 /\ u \in Participants(matches[i])
                 /\ matches[i].status = "awaiting_appeal"
                 /\ matches'[i].status = "appealed"
                 /\ Len(appeals') = Len(appeals) + 1
                 /\ appeals'[Len(appeals')].match_id = i
                 /\ appeals'[Len(appeals')].user_id = u
                 /\ appeals'[Len(appeals')].status = "pending"
                 /\ users' = users
            ELSE resp'.code >= 400 /\ db' = db]_vars

(* an appeal has just been accepted *)
C15_Witness ==
  \E i \in 1..Len(matches) :
    /\ matches[i].status = "appealed"
    /\ PendingAppeals(i) # {}
    /\ resp = [op |-> "appeal", code |-> 200]

(* C16: there is at most one appeal record for each (match, filer) pair. *)
C16_OneAppealPerFiler ==
  \A a, b \in 1..Len(appeals) :
    (appeals[a].match_id = appeals[b].match_id
     /\ appeals[a].user_id = appeals[b].user_id) => a = b

(* a filer who has appealed is refused a second appeal on a match that is
   awaiting_appeal again, before its deadline *)
C16_Witness ==
  \E i \in 1..Len(matches), a \in 1..Len(appeals) :
    /\ appeals[a].match_id = i
    /\ matches[i].status = "awaiting_appeal"
    /\ matches[i].appeal_deadline >= now
    /\ resp = [op |-> "appeal", code |-> 400]

(* C17: resolving an appeal as upheld moves its match to disputed; resolving
   it as rejected changes only the appeal record; neither changes a balance
   or records a transaction. *)
C17_ResolveEffects ==
  [][\A u \in UserIds, a \in 1..Len(appeals), d \in {"upheld", "rejected"} :
       (resp' = [op |-> "resolve", code |-> 200] /\ ResolveAppeal(u, a, d))
       => /\ users' = users
          /\ transactions' = transactions
          /\ challenges' = challenges
          /\ appeals'[a].status = d
          /\ \A b \in 1..Len(appeals) : b # a => appeals'[b] = appeals[b]
          /\ IF d = "upheld"
               THEN matches'[appeals[a].match_id].status = "disputed"
               ELSE matches' = matches]_vars

(* an appeal has just been rejected and its match is still appealed *)
C17_Witness ==
  \E a \in 1..Len(appeals) :
    /\ appeals[a].status = "rejected"
    /\ matches[appeals[a].match_id].status = "appealed"
    /\ resp = [op |-> "resolve", code |-> 200]

(* appeals filed on a match *)
AppealsOn(id) == {a \in 1..Len(appeals) : appeals[a].match_id = id}

(* C18: once the appeals on an appealed match have all been rejected and the
   appeal deadline has passed, process-disbursement succeeds and the match
   becomes disbursed. *)
C18_DisburseAfterRejectedAppeal ==
  [][\A i \in MatchIds :
       ( /\ i <= Len(matches)
         /\ matches[i].status = "appealed"
         /\ AppealsOn(i) # {}
         /\ \A a \in AppealsOn(i) : appeals[a].status = "rejected"
         /\ matches[i].appeal_deadline <= now
         /\ ProcessDisbursement(i) )
       => (resp'.code = 200 /\ matches'[i].status = "disbursed")]_vars

(* C19: a match's status changes only along the edges in_progress ->
   awaiting_appeal, in_progress -> draw, awaiting_appeal -> appealed,
   appealed -> disputed, awaiting_appeal -> disbursed, draw -> disbursed. *)
C19_StatusEdgesOnly ==
  [][\A i \in 1..Len(matches) :
       matches'[i].status # matches[i].status
         => <<matches[i].status, matches'[i].status>> \in
              { <<"in_progress", "awaiting_appeal">>, <<"in_progress", "draw">>,
                <<"awaiting_appeal", "appealed">>, <<"appealed", "disputed">>,
                <<"awaiting_appeal", "disbursed">>, <<"draw", "disbursed">> }]_vars

(* C20: once a match is disbursed no later step changes its status, its
   winner or its appeal deadline. *)
C20_DisbursedIsTerminal ==
  [][\A i \in 1..Len(matches) :
       matches[i].status = "disbursed"
         => /\ matches'[i].status = "disbursed"
            /\ matches'[i].winner_id = matches[i].winner_id
            /\ matches'[i].appeal_deadline = matches[i].appeal_deadline]_vars

----------------------------------------------------------------------------
(* C21: in every reachable state at most one challenge of an ordered
   (proposer, target) pair is pending with its expiry after now, and every
   stored challenge has a stake of at least MIN_STAKE and a proposer
   different from its target. *)
C21_OnePendingPerPair ==
  /\ \A i, j \in 1..Len(challenges) :
        ( /\ challenges[i].creator_id = challenges[j].creator_id
          /\ challenges[i].opponent_id = challenges[j].opponent_id
          /\ challenges[i].status = "pending"
          /\ challenges[j].status = "pending"
          /\ challenges[i].expires_at > now
          /\ challenges[j].expires_at > now ) => i = j
  /\ \A i \in 1..Len(challenges) :
        /\ IsNumber(challenges[i].stake_amount)
        /\ challenges[i].stake_amount >= MIN_STAKE
        /\ challenges[i].creator_id # challenges[i].opponent_id

(* the matches created from challenge c *)
MatchesOf(ms, c) == {m \in 1..Len(ms) : ms[m].challenge_id = c}

(* C22: once a challenge is accepted, declined or cancelled, no step changes
   any of its fields, and no step adds a match made from it: a challenge
   never has a second match. *)
C22_TerminalImmutable ==
  [][\A c \in 1..Len(challenges) :
       challenges[c].status \in {"accepted", "declined", "cancelled"} =>
         /\ c \in 1..Len(challenges')
         /\ challenges'[c] = challenges[c]
         /\ MatchesOf(matches', c) = MatchesOf(matches, c)
         /\ Cardinality(MatchesOf(matches', c)) <= 1]_vars

(* both stored challenges are terminal, one of them accepted, and the last
   request was an accept that failed *)
C22_Witness ==
  /\ Len(challenges) = MaxStoredChallenges
  /\ \A c \in 1..Len(challenges) :
        challenges[c].status \in {"accepted", "declined", "cancelled"}
  /\ \E c \in 1..Len(challenges) : challenges[c].status = "accepted"
  /\ resp = [op |-> "accept", code |-> 404]

(* C23: an accept or a decline by an account that is not the challenge's
   target, and a cancel by an account that is not its proposer, fails and
   leaves the challenges unchanged. *)
C23_OnlyPartyActs ==
  [][\A u \in UserIds, c \in 1..Len(challenges) :
       /\ ( /\ resp'.op = "accept"
            /\ AcceptChallenge(u, c)
            /\ u # challenges[c].opponent_id )
            => (resp'.code >= 400 /\ challenges' = challenges)
       /\ ( /\ resp'.op = "decline"
            /\ DeclineChallenge(u, c)
            /\ u # challenges[c].opponent_id )
            => (resp'.code >= 400 /\ challenges' = challenges)
       /\ ( /\ resp'.op = "cancel"
            /\ CancelChallenge(u, c)
            /\ u # challenges[c].creator_id )
            => (resp'.code >= 400 /\ challenges' = challenges)]_vars

(* C24: a send, decline or cancel request, answered with success or with an
   error, leaves every account's available and locked balance unchanged. *)
C24_NoBalanceChange ==
  [][\A u \in UserIds :
       /\ ( /\ resp'.op = "send"
            /\ \E p \in SendInputs, s \in StakeInputs :
                 p[1] = u /\ SendStoredChallenge(u, p[2], s) )
            => users' = users
       /\ ( /\ resp'.op = "decline"
            /\ \E c \in StoredChallengeIds : DeclineChallenge(u, c) )
            => users' = users
       /\ ( /\ resp'.op = "cancel"
            /\ \E c \in StoredChallengeIds : CancelChallenge(u, c) )
            => users' = users]_vars

(* a proposer holding at least the stake has just cancelled a challenge *)
C24_Witness ==
  /\ resp = [op |-> "cancel", code |-> 200]
  /\ \E c \in 1..Len(challenges) :
        /\ challenges[c].status = "cancelled"
        /\ IsNumber(challenges[c].stake_amount)
        /\ users[challenges[c].creator_id].wallet_balance
              >= challenges[c].stake_amount

(* C25: a request answered with an error status leaves the accounts,
   challenges, matches, appeals and transactions as they were. *)
C25_FailureChangesNothing ==
  [][resp'.code >= 400 => db' = db]_vars

(* C26: a withdrawal of more than the available balance fails and changes
   nothing; otherwise it reduces the available balance by exactly the
   amount, leaves the locked balance and every other account unchanged, and
   adds one pending withdrawal transaction of that amount. *)
C26_WithdrawEffects ==
  [][\A u \in Players, a \in WithdrawAmounts :
       (resp'.op = "withdraw" /\ Withdraw(u, a)) =>
         IF users[u].wallet_balance < a
         THEN resp'.code >= 400 /\ db' = db
         ELSE /\ resp'.code = 200
              /\ users' = [users EXCEPT ![u].wallet_balance = @ - a]
              /\ transactions' = transactions (+) SetToBag({
                    [user_id |-> u, type |-> "withdrawal", amount |-> a,
                     reference_id |-> "WTH", status |-> "pending"]})
              /\ NumTx("withdrawal")' = NumTx("withdrawal") + 1
              /\ UNCHANGED <<challenges, matches, appeals>>]_vars

(* a withdrawal has just been refused for lack of funds *)
C26_Witness ==
  /\ resp = [op |-> "withdraw", code |-> 400]
  /\ NumTx("withdrawal") = 0
  /\ \E u \in Players : users[u].wallet_balance < MIN_WITHDRAWAL

(* C27: a withdrawal is decided once: an admin's approve turns a pending
   withdrawal into an approved one and credits nothing; an admin's reject
   turns it into a rejected one and credits its amount to the account; an
   approve or reject of anything but a pending withdrawal fails and changes
   no balance and no transaction. *)
C27_WithdrawalDecidedOnce ==
  [][\A u \in UserIds, r \in DOMAIN transactions :
       /\ (resp'.op = "approve" /\ SqlApproveWithdrawal(u, r)) =>
            IF users[u].is_admin = 1 /\ PendingTransaction(r)
            THEN /\ users' = users
                 /\ transactions' = SetTxStatus(transactions, r, "approved")
            ELSE resp'.code >= 400 /\ db' = db
       /\ (resp'.op = "reject" /\ SqlRejectWithdrawal(u, r)) =>
            IF users[u].is_admin = 1 /\ PendingTransaction(r)
            THEN /\ users' = [users EXCEPT ![r.user_id].wallet_balance = @ + r.amount]
                 /\ transactions' = SetTxStatus(transactions, r, "rejected")
            ELSE resp'.code >= 400 /\ db' = db]_vars

(* the platform_fee rows written for match m *)
FeeRows(m) ==
  {r \in DOMAIN transactions :
     r.type = "platform_fee" /\ r.reference_id = <<"FEE", m>>}

(* C28: a platform_fee transaction exists only for a match settled with a
   winner, at most one per match and of the match's fee; a drawn match has
   none. *)
C28_FeeOnlyForWinner ==
  \A m \in 1..Len(matches) :
    /\ TxCount("platform_fee", <<"FEE", m>>) <= 1
    /\ \A r \in FeeRows(m) :
          /\ r.amount = matches[m].dx_fee
          /\ matches[m].status # "draw"
          /\ matches[m].winner_id # NoUser

(* C30: a successful create moves the creator's stake from available to
   locked; a successful accept is of an open match, by an account other than
   its creator, moves the accepter's stake from available to locked and makes
   the match pending_game with the accepter as opponent; an accept of a match
   that is not open fails and changes no balance and no match. *)
C30_CreateAcceptLock ==
  [][\A u \in UserIds :
       /\ \A s \in StakeAmounts, tc \in TimeControls :
            (resp' = [op |-> "create", code |-> 201] /\ CreateMatch(u, s, tc)) =>
              /\ users[u].wallet_balance >= s
              /\ users' = [users EXCEPT ![u].wallet_balance = @ - s,
                                        ![u].locked_balance = @ + s]
       /\ \A m \in SqlMatchIds :
            (resp'.op = "accept" /\ AcceptMatch(u, m)) =>
              IF m \in 1..Len(matches) /\ matches[m].status = "open"
              THEN IF resp'.code = 200
                   THEN /\ u # matches[m].creator_id
                        /\ users[u].wallet_balance >= matches[m].stake_amount
                        /\ users' = [users EXCEPT
                              ![u].wallet_balance = @ - matches[m].stake_amount,
                              ![u].locked_balance = @ + matches[m].stake_amount]
                        /\ matches' = [matches EXCEPT
                              ![m].status = "pending_game",
                              ![m].opponent_id = u]
                   ELSE db' = db
              ELSE resp'.code >= 400 /\ db' = db]_vars

(* an accept of a match that was already accepted has just failed *)
C30_Witness ==
  /\ resp = [op |-> "accept", code |-> 404]
  /\ \E m \in 1..Len(matches) :
        /\ matches[m].status = "pending_game"
        /\ users[matches[m].opponent_id].locked_balance >= matches[m].stake_amount

(* C29: for every integer stake s of at least MIN_STAKE, calculateFee
   returns totalPot = 2s, fee = 2s * 1.5 / 100 and winnerPayout = 2s - fee,
   with fee + winnerPayout = 2s exactly; the stakes 500, 1000 and 5000 give
   the fees 15, 30, 150 and the payouts 985, 1970, 9850.  Amounts of the
   result are in hundredths. *)
C29_FeeArithmetic ==
  (resp.op = "calculateFee" /\ resp.code = 200) =>
    LET s == resp.stakeAmount
        r == resp.result
    IN  /\ s >= MIN_STAKE
        /\ r.totalPot = 2 * s * 100
        /\ r.fee * 1000 = r.totalPot * PLATFORM_FEE_PERMILLE
        /\ r.winnerPayout = r.totalPot - r.fee
        /\ r.fee + r.winnerPayout = 2 * s * 100
        /\ (s = 500 => r.fee = 15 * 100 /\ r.winnerPayout = 985 * 100)
        /\ (s = 1000 => r.fee = 30 * 100 /\ r.winnerPayout = 1970 * 100)
        /\ (s = 5000 => r.fee = 150 * 100 /\ r.winnerPayout = 9850 * 100)

(* calculateFee has been applied to a stake whose fee is not a whole naira *)
C29_Witness ==
  /\ resp.op = "calculateFee"
  /\ resp.code = 200
  /\ resp.stakeAmount = MIN_STAKE + 1
  /\ resp.result.fee % 100 # 0

----------------------------------------------------------------------------
(* C31: when two submit-result handlers of one match are suspended at the
   await together, the one that resumes second, finding the match no longer
   in_progress, does not overwrite the match's status, winner or appeal
   deadline and changes no balance. *)
C31_SecondResumeKeepsResult ==
  [][\A m \in MatchIds :
       ( /\ resp'.op = "submit"
         /\ m \in DOMAIN inflight
         /\ m \in 1..Len(matches)
         /\ matches[m].status # "in_progress"
         /\ \E g \in GameIds, f \in BOOLEAN : SubmitResultResume(m, g, f) )
       => /\ matches'[m].status = matches[m].status
          /\ matches'[m].winner_id = matches[m].winner_id
          /\ matches'[m].appeal_deadline = matches[m].appeal_deadline
          /\ users' = users]_vars

(* C32: in every reachable state a disbursed match has no pending appeal. *)
C32_NoDisbursedWithPendingAppeal ==
  \A m \in 1..Len(matches) :
    matches[m].status = "disbursed" => PendingAppeals(m) = {}

(* C33: process-disbursement on a match in status draw succeeds only when
   the appeal deadline stored by submit-result is no longer after now. *)
C33_DrawRefundAfterDeadline ==
  [][\A m \in 1..Len(matches) :
       ( /\ resp' = [op |-> "disburse", code |-> 200]
         /\ matches[m].status = "draw"
         /\ ProcessDisbursement(m) )
       => ~(matches[m].appeal_deadline > now)]_vars

(* the sum of available + locked over the accounts in set S *)
RECURSIVE SumBalances(_, _)
SumBalances(us, S) ==
  IF S = {} THEN 0
  ELSE LET u == CHOOSE x \in S : TRUE
       IN  us[u].wallet_balance + us[u].locked_balance
             + SumBalances(us, S \ {u})

(* the withdrawals that are pending or approved *)
OpenWithdrawals ==
  [r \in {x \in DOMAIN transactions :
            x.type = "withdrawal" /\ x.status \in {"pending", "approved"}} |->
     transactions[r]]

(* C34: in every reachable state the accounts' available and locked
   balances, the pending and approved withdrawals and the recorded platform
   fees add up to the deposits. *)
C34_MoneyConserved ==
  SumBalances(users, DOMAIN users)
    + SumAmounts(OpenWithdrawals)
    + SumAmounts(TxOfType("platform_fee"))
  = SumAmounts(TxOfType("deposit"))

(* C35: whenever a pending challenge counts as expired for send's duplicate
   check and for the pending listing (its expiry is not after now), an accept
   of that challenge by its target fails and changes nothing; in particular
   when now = expires_at. *)
C35_ExpiryJudgedAlike ==
  [][\A u \in UserIds, c \in 1..Len(challenges) :
       ( /\ resp'.op = "accept"
         /\ challenges[c].status = "pending"
         /\ ~(challenges[c].expires_at > now)
         /\ AcceptChallenge(u, c) )
       => (resp'.code >= 400 /\ db' = db)]_vars

(* C36: a resolve request for an appeal that is already upheld or rejected
   changes neither the appeal's status nor its resolver, and does not change
   the status of the appeal's match. *)
C36_ResolutionFinal ==
  [][\A a \in 1..Len(appeals) :
       ( /\ resp'.op = "resolve"
         /\ appeals[a].status \in {"upheld", "rejected"}
         /\ \E u \in UserIds, d \in {"upheld", "rejected"} : ResolveAppeal(u, a, d) )
       => /\ appeals'[a].status = appeals[a].status
          /\ appeals'[a].resolved_by = appeals[a].resolved_by
          /\ matches'[appeals[a].match_id].status
               = matches[appeals[a].match_id].status]_vars

(* C37: in every reachable state the recorded winner of a match is an
   account with a linked Lichess handle. *)
C37_WinnerHasHandle ==
  \A m \in 1..Len(matches) :
    matches[m].winner_id # NoUser =>
      users[matches[m].winner_id].lichess_username \notin {Null, Missing}

(* C38: while only its creator sends requests, an open match leads to a
   state in which the creator's stake is no longer locked. *)
C38_OpenStakeReleasable ==
  \A m \in SqlMatchIds :
    (m \in 1..Len(matches) /\ matches[m].status = "open")
      ~> ( /\ m \in 1..Len(matches)
           /\ users[matches[m].creator_id].locked_balance < matches[m].stake_amount )

====
